---- MODULE Spec2Model ----
(***************************************************************************)
(* Gift-opening concave hull (crate concave-hull): concave_hull and        *)
(* concave_hull_inner, with Edge, edges_intersect and the binary heap the  *)
(* refinement loop pops from.                                              *)
(*                                                                         *)
(* Coordinates are small integers, on which every f32/f64 operation of the *)
(* code (differences, products, squared norms) is exact.  Angles are kept  *)
(* as their cosine, dot / sqrt(m), and compared exactly.  Point indices    *)
(* are 0-based as in the code; Vec and BinaryHeap contents are sequences.  *)
(***************************************************************************)
EXTENDS Integers, Sequences, FiniteSets, TLC

VARIABLES
    points,           \* the caller's point cloud, 0-based: [0..n-1 -> point]
    concavity,        \* the concavity argument
    convex_hull,      \* what convex_hull_idx returned
    provider_called,  \* whether convex_hull_idx has been called
    pc,               \* position in concave_hull / concave_hull_inner
    edge_heap,        \* BinaryHeap<Edge>, as its backing vector
    boundary_points,  \* HashSet<usize>
    concave_hull,     \* Vec<Edge>: the finalized edges
    sorted_hull,      \* the returned Vec<(usize, Point)>
    iterations,       \* number of iterations of the 'edges loop so far
    splits,           \* number of committed splits so far
    last,             \* what the latest iteration of the 'edges loop did
    test,             \* a direct call of edges_intersect on two edges, as the unit
                      \* tests of segment_intersect.rs make it
    pushed            \* the edges pushed on edge_heap so far, in the order pushed

vars == <<points, concavity, convex_hull, provider_called, pc, edge_heap,
          boundary_points, concave_hull, sorted_hull, iterations, splits, last, test,
          pushed>>

----------------------------------------------------------------------------
(* Bounds of the model *)

\* Clouds are drawn from the first NumPositions points of the numpad grid.
NumPositions == 8
\* Largest cloud.
MaxPoints == 5
\* Finite concavities are 0..MaxConcavity; +infinity is always included.
MaxConcavity == 2

----------------------------------------------------------------------------
(* Scalars and points *)

Abs(x) == IF x < 0 THEN -x ELSE x

\* The numpad grid of the tests, continued upwards: 0 -> (0,0), 1..3 -> y = 1, ...
Position(k) ==
    IF k = 0 THEN [x |-> 0, y |-> 0]
    ELSE [x |-> (k - 1) % 3, y |-> ((k - 1) \div 3) + 1]

\* A concavity: a finite value or +infinity.
Concavities ==
    {[inf |-> FALSE, val |-> c] : c \in 0..MaxConcavity} \cup {[inf |-> TRUE, val |-> 0]}

\* concavity.powi(2)
powi2(c) == [inf |-> c.inf, val |-> c.val * c.val]

\* x > c for a finite x: nothing exceeds +infinity
ScalarGt(x, c) == ~c.inf /\ x > c.val

NumPoints(pts) == Cardinality(DOMAIN pts)

\* a - b on points, a vector
Sub(a, b) == [x |-> a.x - b.x, y |-> a.y - b.y]

Dot(u, v) == u.x * v.x + u.y * v.y

VecNormSquared(v) == Dot(v, v)

----------------------------------------------------------------------------
(* Vector angle, in [0, pi], kept as its cosine d / sqrt(m) *)

\* u.angle(&v): 0 when either vector is zero
angle(u, v) ==
    LET m == VecNormSquared(u) * VecNormSquared(v) IN
    IF m = 0 THEN [d |-> 1, m |-> 1] ELSE [d |-> Dot(u, v), m |-> m]

SignedSquare(d) == d * Abs(d)

\* a > b on angles: cos a < cos b
AngleGt(a, b) == SignedSquare(a.d) * b.m < SignedSquare(b.d) * a.m

\* a.max(b) on angles
AngleMax(a, b) == IF AngleGt(b, a) THEN b ELSE a

----------------------------------------------------------------------------
(* Edge *)

Edge_new(i, j, pts) == [i |-> i, j |-> j, point_i |-> pts[i], point_j |-> pts[j]]

\* PartialEq for Edge: indices only
EdgeEq(e1, e2) == e1.i = e2.i /\ e1.j = e2.j

norm_squared(e) == VecNormSquared(Sub(e.point_j, e.point_i))

\* Mutant of EdgeLe: the comparison turned round
EdgeLe_Reversed(a, b) == norm_squared(a) >= norm_squared(b)

\* Ord for Edge, as the heap uses it: a <= b
EdgeLe(a, b) == norm_squared(a) <= norm_squared(b)

\* Mutant of split_by: the second child runs back to the start of the edge
split_by_BackToStart(e, point, idx) ==
    << [i |-> e.i, j |-> idx, point_i |-> e.point_i, point_j |-> point],
       [i |-> idx, j |-> e.i, point_i |-> point, point_j |-> e.point_i] >>

split_by(e, point, idx) ==
    << [i |-> e.i, j |-> idx, point_i |-> e.point_i, point_j |-> point],
       [i |-> idx, j |-> e.j, point_i |-> point, point_j |-> e.point_j] >>

----------------------------------------------------------------------------
(* edges_intersect *)

\* The three debug assertions at the head of edges_intersect.
DebugAssertsHold(e1, e2) ==
    /\ ~(e1.i = e2.j /\ e2.i = e1.j)
    /\ ~(e1.i = e2.i /\ e1.j # e2.j)
    /\ ~(e1.j = e2.j /\ e1.i # e2.i)

\* Mutant of edges_intersect: the parameter u, along e2, is not tested
edges_intersect_FirstParameterOnly(e1, e2) ==
    IF EdgeEq(e1, e2) THEN TRUE
    ELSE IF e1.i = e2.j \/ e2.i = e1.j THEN FALSE
    ELSE
        LET t_num == (e1.point_i.x - e2.point_i.x) * (e2.point_i.y - e2.point_j.y)
                     - (e1.point_i.y - e2.point_i.y) * (e2.point_i.x - e2.point_j.x)
            t_denom == (e1.point_i.x - e1.point_j.x) * (e2.point_i.y - e2.point_j.y)
                       - (e1.point_i.y - e1.point_j.y) * (e2.point_i.x - e2.point_j.x)
            u_num == -((e1.point_i.x - e1.point_j.x) * (e1.point_i.y - e2.point_i.y)
                       - (e1.point_i.y - e1.point_j.y) * (e1.point_i.x - e2.point_i.x))
            u_denom == (e1.point_i.x - e1.point_j.x) * (e2.point_i.y - e2.point_j.y)
                       - (e1.point_i.y - e1.point_j.y) * (e2.point_i.x - e2.point_j.x)
        IN  /\ t_denom # 0
            /\ t_num * t_denom >= 0
            /\ Abs(t_num) <= Abs(t_denom)

\* Mutant of edges_intersect: the parameters 0 are left out of the interval
edges_intersect_OpenInterval(e1, e2) ==
    IF EdgeEq(e1, e2) THEN TRUE
    ELSE IF e1.i = e2.j \/ e2.i = e1.j THEN FALSE
    ELSE
        LET t_num == (e1.point_i.x - e2.point_i.x) * (e2.point_i.y - e2.point_j.y)
                     - (e1.point_i.y - e2.point_i.y) * (e2.point_i.x - e2.point_j.x)
            t_denom == (e1.point_i.x - e1.point_j.x) * (e2.point_i.y - e2.point_j.y)
                       - (e1.point_i.y - e1.point_j.y) * (e2.point_i.x - e2.point_j.x)
            u_num == -((e1.point_i.x - e1.point_j.x) * (e1.point_i.y - e2.point_i.y)
                       - (e1.point_i.y - e1.point_j.y) * (e1.point_i.x - e2.point_i.x))
            u_denom == (e1.point_i.x - e1.point_j.x) * (e2.point_i.y - e2.point_j.y)
                       - (e1.point_i.y - e1.point_j.y) * (e2.point_i.x - e2.point_j.x)
        IN  /\ t_denom # 0
            /\ t_num * t_denom > 0
            /\ Abs(t_num) <= Abs(t_denom)
            /\ u_denom # 0
            /\ u_num * u_denom > 0
            /\ Abs(u_num) <= Abs(u_denom)

\* Mutant of edges_intersect: duplicate edges are not told apart from the others
edges_intersect_NoDuplicateRule(e1, e2) ==
    IF e1.i = e2.j \/ e2.i = e1.j THEN FALSE
    ELSE
        LET t_num == (e1.point_i.x - e2.point_i.x) * (e2.point_i.y - e2.point_j.y)
                     - (e1.point_i.y - e2.point_i.y) * (e2.point_i.x - e2.point_j.x)
            t_denom == (e1.point_i.x - e1.point_j.x) * (e2.point_i.y - e2.point_j.y)
                       - (e1.point_i.y - e1.point_j.y) * (e2.point_i.x - e2.point_j.x)
            u_num == -((e1.point_i.x - e1.point_j.x) * (e1.point_i.y - e2.point_i.y)
                       - (e1.point_i.y - e1.point_j.y) * (e1.point_i.x - e2.point_i.x))
            u_denom == (e1.point_i.x - e1.point_j.x) * (e2.point_i.y - e2.point_j.y)
                       - (e1.point_i.y - e1.point_j.y) * (e2.point_i.x - e2.point_j.x)
        IN  /\ t_denom # 0
            /\ t_num * t_denom >= 0
            /\ Abs(t_num) <= Abs(t_denom)
            /\ u_denom # 0
            /\ u_num * u_denom >= 0
            /\ Abs(u_num) <= Abs(u_denom)

\* Mutant of edges_intersect: edges connected at an endpoint go on to the geometry
edges_intersect_ChainedIsGeometry(e1, e2) ==
    IF EdgeEq(e1, e2) THEN TRUE
    ELSE
        LET t_num == (e1.point_i.x - e2.point_i.x) * (e2.point_i.y - e2.point_j.y)
                     - (e1.point_i.y - e2.point_i.y) * (e2.point_i.x - e2.point_j.x)
            t_denom == (e1.point_i.x - e1.point_j.x) * (e2.point_i.y - e2.point_j.y)
                       - (e1.point_i.y - e1.point_j.y) * (e2.point_i.x - e2.point_j.x)
            u_num == -((e1.point_i.x - e1.point_j.x) * (e1.point_i.y - e2.point_i.y)
                       - (e1.point_i.y - e1.point_j.y) * (e1.point_i.x - e2.point_i.x))
            u_denom == (e1.point_i.x - e1.point_j.x) * (e2.point_i.y - e2.point_j.y)
                       - (e1.point_i.y - e1.point_j.y) * (e2.point_i.x - e2.point_j.x)
        IN  /\ t_denom # 0
            /\ t_num * t_denom >= 0
            /\ Abs(t_num) <= Abs(t_denom)
            /\ u_denom # 0
            /\ u_num * u_denom >= 0
            /\ Abs(u_num) <= Abs(u_denom)

edges_intersect(e1, e2) ==
    IF EdgeEq(e1, e2) THEN TRUE
    ELSE IF e1.i = e2.j \/ e2.i = e1.j THEN FALSE
    ELSE
        LET t_num == (e1.point_i.x - e2.point_i.x) * (e2.point_i.y - e2.point_j.y)
                     - (e1.point_i.y - e2.point_i.y) * (e2.point_i.x - e2.point_j.x)
            t_denom == (e1.point_i.x - e1.point_j.x) * (e2.point_i.y - e2.point_j.y)
                       - (e1.point_i.y - e1.point_j.y) * (e2.point_i.x - e2.point_j.x)
            u_num == -((e1.point_i.x - e1.point_j.x) * (e1.point_i.y - e2.point_i.y)
                       - (e1.point_i.y - e1.point_j.y) * (e1.point_i.x - e2.point_i.x))
            u_denom == (e1.point_i.x - e1.point_j.x) * (e2.point_i.y - e2.point_j.y)
                       - (e1.point_i.y - e1.point_j.y) * (e2.point_i.x - e2.point_j.x)
        IN  /\ t_denom # 0
            /\ t_num * t_denom >= 0
            /\ Abs(t_num) <= Abs(t_denom)
            /\ u_denom # 0
            /\ u_num * u_denom >= 0
            /\ Abs(u_num) <= Abs(u_denom)

----------------------------------------------------------------------------
(* BinaryHeap<Edge>: the backing vector, positions 0-based as in std *)

At(data, pos) == data[pos + 1]

Swap(data, p, q) == [data EXCEPT ![p + 1] = data[q + 1], ![q + 1] = data[p + 1]]

RECURSIVE sift_up(_, _, _)
sift_up(data, start, pos) ==
    IF pos > start
    THEN LET parent == (pos - 1) \div 2 IN
         IF EdgeLe(At(data, pos), At(data, parent)) THEN data
         ELSE sift_up(Swap(data, pos, parent), start, parent)
    ELSE data

heap_push(data, e) == sift_up(Append(data, e), 0, Len(data))

RECURSIVE sift_down_to_bottom(_, _, _)
sift_down_to_bottom(data, start, pos) ==
    LET end == Len(data)
        child == 2 * pos + 1
    IN  IF end >= 2 /\ child <= end - 2
        THEN LET c == IF EdgeLe(At(data, child), At(data, child + 1))
                      THEN child + 1 ELSE child
             IN  sift_down_to_bottom(Swap(data, pos, c), start, c)
        ELSE IF child = end - 1
        THEN sift_up(Swap(data, pos, child), start, child)
        ELSE sift_up(data, start, pos)

\* Mutant of heap_pop: the greatest edge is read and left in the heap
heap_pop_Peek(data) == [edge |-> data[1], heap |-> data]

\* edge_heap.pop() on a non-empty heap: the popped edge and the heap left
heap_pop(data) ==
    LET item == data[Len(data)]
        rest == SubSeq(data, 1, Len(data) - 1)
    IN  IF rest = <<>> THEN [edge |-> item, heap |-> <<>>]
        ELSE [edge |-> rest[1],
              heap |-> sift_down_to_bottom([rest EXCEPT ![1] = item], 0, 0)]

----------------------------------------------------------------------------
(* The convex hull provider, parry2d's convex_hull_idx: the strict convex  *)
(* hull in counter-clockwise order, from an unspecified first vertex.      *)

Cross(o, a, b) == (a.x - o.x) * (b.y - o.y) - (a.y - o.y) * (b.x - o.x)

LexLess(p, q) == p.x < q.x \/ (p.x = q.x /\ p.y < q.y)

LexMin(pts) == CHOOSE i \in DOMAIN pts : \A k \in DOMAIN pts \ {i} : LexLess(pts[i], pts[k])

\* The hull vertex after vertex i, walking counter-clockwise.
JarvisNext(pts, i) ==
    CHOOSE j \in DOMAIN pts \ {i} :
        /\ \A k \in DOMAIN pts : Cross(pts[i], pts[j], pts[k]) >= 0
        /\ \A k \in DOMAIN pts \ {i, j} :
             (Cross(pts[i], pts[j], pts[k]) = 0
                 /\ Dot(Sub(pts[j], pts[i]), Sub(pts[k], pts[i])) > 0)
             => VecNormSquared(Sub(pts[k], pts[i])) < VecNormSquared(Sub(pts[j], pts[i]))

RECURSIVE HullWalk(_, _, _, _)
HullWalk(pts, first, cur, acc) ==
    LET nxt == JarvisNext(pts, cur) IN
    IF nxt = first THEN acc ELSE HullWalk(pts, first, nxt, Append(acc, nxt))

Rotations(s) ==
    { [k \in 1..Len(s) |-> s[((k - 1 + r) % Len(s)) + 1]] : r \in 0..(Len(s) - 1) }

\* The sequences convex_hull_idx may return on pts.
convex_hull_idx(pts) ==
    IF NumPoints(pts) <= 2 THEN { [k \in 1..NumPoints(pts) |-> k - 1] }
    ELSE Rotations(HullWalk(pts, LexMin(pts), LexMin(pts), <<LexMin(pts)>>))

----------------------------------------------------------------------------
(* The candidate scan of a split attempt *)

\* Mutant of CandidateScore: the smaller of the two angles
CandidateScore_SmallerAngle(edge, p) ==
    LET e1 == Sub(p, edge.point_i)
        e2 == Sub(edge.point_j, p)
        e_v == Sub(edge.point_j, edge.point_i)
        a1 == angle(e_v, e1)
        a2 == angle(e_v, e2)
    IN  IF AngleGt(a1, a2) THEN a2 ELSE a1

\* The score of point p for edge: the larger of the two angles
CandidateScore(edge, p) ==
    LET e1 == Sub(p, edge.point_i)
        e2 == Sub(edge.point_j, p)
        e_v == Sub(edge.point_j, edge.point_i)
    IN  AngleMax(angle(e_v, e1), angle(e_v, e2))

NoBest == [some |-> FALSE, idx |-> 0, angle |-> [d |-> 1, m |-> 1]]

\* Mutant of find_best: a later point of equal score replaces the best so far
RECURSIVE find_best_LastWins(_, _, _, _)
find_best_LastWins(pts, edge, i, best) ==
    IF i >= NumPoints(pts) THEN best
    ELSE IF i = edge.i \/ i = edge.j THEN find_best_LastWins(pts, edge, i + 1, best)
    ELSE LET a == CandidateScore(edge, pts[i]) IN
         IF ~best.some \/ ~AngleGt(a, best.angle)
         THEN find_best_LastWins(pts, edge, i + 1, [some |-> TRUE, idx |-> i, angle |-> a])
         ELSE find_best_LastWins(pts, edge, i + 1, best)

\* The 'points loop from index i on, with the best so far
RECURSIVE find_best(_, _, _, _)
find_best(pts, edge, i, best) ==
    IF i >= NumPoints(pts) THEN best
    ELSE IF i = edge.i \/ i = edge.j THEN find_best(pts, edge, i + 1, best)
    ELSE LET a == CandidateScore(edge, pts[i]) IN
         IF ~best.some \/ AngleGt(best.angle, a)
         THEN find_best(pts, edge, i + 1, [some |-> TRUE, idx |-> i, angle |-> a])
         ELSE find_best(pts, edge, i + 1, best)

Range(s) == { s[k] : k \in DOMAIN s }

\* Mutant of SplitIntersects: only the first child is tested
SplitIntersects_FirstChildOnly(finalized, pending, e1, e2) ==
    \E edge \in Range(finalized) \cup Range(pending) : edges_intersect(edge, e1)

\* Mutant of SplitIntersects: the pending edges are not looked at
SplitIntersects_FinalizedOnly(finalized, pending, e1, e2) ==
    \E edge \in Range(finalized) :
        edges_intersect(edge, e1) \/ edges_intersect(edge, e2)

\* Whether a child edge intersects an edge finalized or still pending
SplitIntersects(finalized, pending, e1, e2) ==
    \E edge \in Range(finalized) \cup Range(pending) :
        edges_intersect(edge, e1) \/ edges_intersect(edge, e2)

----------------------------------------------------------------------------
(* Reconstruction: sorting the finalized edges end to end *)

\* Vec::swap_remove at 1-based position k
swap_remove(v, k) ==
    IF k = Len(v) THEN SubSeq(v, 1, Len(v) - 1)
    ELSE SubSeq([v EXCEPT ![k] = v[Len(v)]], 1, Len(v) - 1)

\* iter().position(|edge| edge.i == curr.j), 1-based; 0 when there is none
NextPosition(v, curr) ==
    IF \E k \in DOMAIN v : v[k].i = curr.j
    THEN CHOOSE k \in DOMAIN v : v[k].i = curr.j /\ \A l \in 1..(k - 1) : v[l].i # curr.j
    ELSE 0

\* The while loop of the reconstruction
RECURSIVE SortWalk(_, _, _)
SortWalk(rest, curr, out) ==
    IF rest = <<>> THEN [ok |-> TRUE, hull |-> Append(out, <<curr.i, curr.point_i>>)]
    ELSE LET next == NextPosition(rest, curr) IN
         IF next = 0 THEN [ok |-> FALSE, hull |-> out]
         ELSE SortWalk(swap_remove(rest, next), rest[next],
                       Append(out, <<curr.i, curr.point_i>>))

\* Mutant of SortHull: the walk starts from the edge finalized first
SortHull_FromFirst(finalized) ==
    IF finalized = <<>> THEN [ok |-> FALSE, hull |-> <<>>]
    ELSE SortWalk(Tail(finalized), finalized[1], <<>>)

SortHull(finalized) ==
    IF finalized = <<>> THEN [ok |-> FALSE, hull |-> <<>>]
    ELSE SortWalk(SubSeq(finalized, 1, Len(finalized) - 1), finalized[Len(finalized)], <<>>)

----------------------------------------------------------------------------
(* Inputs *)

RECURSIVE Ascending(_)
Ascending(S) ==
    IF S = {} THEN <<>>
    ELSE LET m == CHOOSE x \in S : \A y \in S : x <= y IN <<m>> \o Ascending(S \ {m})

Reverse(s) == [k \in 1..Len(s) |-> s[Len(s) + 1 - k]]

\* All points of pts lie on one line
AllCollinear(pts) == \A a, b, c \in DOMAIN pts : Cross(pts[a], pts[b], pts[c]) = 0

\* A cloud of distinct points, listed by position number upwards or downwards.
\* Clouds of three or more points all on one line have no convex polygon to start
\* from and are left out.
Clouds ==
    LET orders == UNION { {Ascending(S), Reverse(Ascending(S))} :
                          S \in { T \in SUBSET (0..(NumPositions - 1)) :
                                    Cardinality(T) <= MaxPoints } }
        clouds == { [k \in 0..(Len(o) - 1) |-> Position(o[k + 1])] : o \in orders }
    IN  { pts \in clouds : NumPoints(pts) <= 2 \/ ~AllCollinear(pts) }

NoStep == [kind |-> "none", i |-> 0, j |-> 0, k |-> 0]

\* No direct call of edges_intersect is being made
NoTest == [called |-> FALSE]

Init ==
    /\ test = NoTest
    /\ pushed = <<>>
    /\ points \in Clouds
    /\ concavity \in Concavities
    /\ convex_hull = <<>>
    /\ provider_called = FALSE
    /\ pc = "concave_hull"
    /\ edge_heap = <<>>
    /\ boundary_points = {}
    /\ concave_hull = <<>>
    /\ sorted_hull = <<>>
    /\ iterations = 0
    /\ splits = 0
    /\ last = NoStep

----------------------------------------------------------------------------
(* concave_hull *)

\* Mutant of EnumeratePoints: indices counted from 1
EnumeratePoints_FromOne(pts) == [k \in 1..NumPoints(pts) |-> <<k, pts[k - 1]>>]

\* points.iter().enumerate().map(|(id, p)| (id, *p)).collect()
EnumeratePoints(pts) == [k \in 1..NumPoints(pts) |-> <<k - 1, pts[k - 1]>>]

\* points.len() <= 1: the points themselves
ReturnPoints ==
    /\ pc = "concave_hull"
    /\ NumPoints(points) <= 1
    /\ sorted_hull' = EnumeratePoints(points)
    /\ pc' = "done"
    /\ UNCHANGED <<pushed, test, points, concavity, convex_hull, provider_called, edge_heap,
                   boundary_points, concave_hull, iterations, splits, last>>

\* the call of convex_hull_idx, then of concave_hull_inner
CallConvexHull ==
    /\ pc = "concave_hull"
    /\ NumPoints(points) > 1
    /\ convex_hull' \in convex_hull_idx(points)
    /\ provider_called' = TRUE
    /\ pc' = "inner"
    /\ UNCHANGED <<pushed, test, points, concavity, edge_heap, boundary_points, concave_hull,
                   sorted_hull, iterations, splits, last>>

----------------------------------------------------------------------------
(* concave_hull_inner *)

\* Mutant of TooFewPoints: < for <=
TooFewPoints_Below3(pts) == NumPoints(pts) < 3

\* Mutant of TooFewPoints: only the clouds of at most one point return early
TooFewPoints_AtMostOne(pts) == NumPoints(pts) <= 1

\* points.len() <= 3: too few points to make a concave hull
TooFewPoints(pts) == NumPoints(pts) <= 3

\* convex_hull.into_iter().map(|id| (id, points[id])).collect()
HullPairs(hull, pts) == [k \in 1..Len(hull) |-> <<hull[k], pts[hull[k]]>>]

ReturnConvexHull ==
    /\ pc = "inner"
    /\ TooFewPoints(points)
    /\ sorted_hull' = HullPairs(convex_hull, points)
    /\ pc' = "done"
    /\ UNCHANGED <<pushed, test, points, concavity, convex_hull, provider_called, edge_heap,
                   boundary_points, concave_hull, iterations, splits, last>>

\* Mutant of HeapUp: every hull edge is pushed with its two ends exchanged
RECURSIVE HeapUp_Clockwise(_, _, _, _)
HeapUp_Clockwise(hull, pts, id, heap) ==
    IF id >= Len(hull) THEN heap
    ELSE HeapUp_Clockwise(hull, pts, id + 1,
                heap_push(heap, Edge_new(hull[((id + 1) % Len(hull)) + 1], hull[id + 1], pts)))

\* The for loop over the convex hull: the heap after pushing edges id.. of hull
RECURSIVE HeapUp(_, _, _, _)
HeapUp(hull, pts, id, heap) ==
    IF id >= Len(hull) THEN heap
    ELSE HeapUp(hull, pts, id + 1,
                heap_push(heap, Edge_new(hull[id + 1], hull[((id + 1) % Len(hull)) + 1], pts)))

BuildHeap ==
    /\ pc = "inner"
    /\ ~TooFewPoints(points)
    /\ edge_heap' = HeapUp(convex_hull, points, 0, <<>>)
    /\ pushed' = [k \in 1..Len(convex_hull) |->
                    Edge_new(convex_hull[k], convex_hull[(k % Len(convex_hull)) + 1], points)]
    /\ boundary_points' = Range(convex_hull)
    /\ concave_hull' = <<>>
    /\ pc' = "edges"
    /\ UNCHANGED <<test, points, concavity, convex_hull, provider_called, sorted_hull,
                   iterations, splits, last>>

\* Mutant of LongEdge: +infinity taken for its stored value
LongEdge_IgnoresInfinity(edge, c) == norm_squared(edge) > c.val * c.val

\* Mutant of LongEdge: edges of unit length are never split
LongEdge_MinLength(edge, c) ==
    ScalarGt(norm_squared(edge), powi2(c)) /\ norm_squared(edge) > 1

\* Mutant of LongEdge: >= for >
LongEdge_OrEqual(edge, c) == ~c.inf /\ norm_squared(edge) >= c.val * c.val

\* edge.norm_squared() > concavity, concavity being squared
LongEdge(edge, c) == ScalarGt(norm_squared(edge), powi2(c))

\* Mutant of InBoundary: the boundary guard never rejects
InBoundary_Never(boundary, idx) == FALSE

\* Mutant of InsertBoundary: the inserted index takes the place of the hull's first
InsertBoundary_Replaces(boundary, idx) ==
    (boundary \ {CHOOSE b \in boundary : \A c \in boundary : b <= c}) \cup {idx}

\* Mutant of InsertBoundary: the inserted index is not recorded
InsertBoundary_Forgets(boundary, idx) == boundary

\* boundary_points.contains(&idx)
InBoundary(boundary, idx) == idx \in boundary

\* boundary_points.insert(idx)
InsertBoundary(boundary, idx) == boundary \cup {idx}

\* An iteration of the 'edges loop on an edge short enough to keep
AcceptShort ==
    /\ pc = "edges"
    /\ edge_heap # <<>>
    /\ LET popped == heap_pop(edge_heap) IN
       /\ ~LongEdge(popped.edge, concavity)
       /\ edge_heap' = popped.heap
       /\ concave_hull' = Append(concave_hull, popped.edge)
       /\ last' = [kind |-> "short", i |-> popped.edge.i, j |-> popped.edge.j, k |-> 0]
    /\ iterations' = iterations + 1
    /\ UNCHANGED <<pushed, test, points, concavity, convex_hull, provider_called, pc,
                   boundary_points, sorted_hull, splits>>

\* An iteration of the 'edges loop on an edge long enough to try to split
TrySplit ==
    /\ pc = "edges"
    /\ edge_heap # <<>>
    /\ LET popped == heap_pop(edge_heap)
           edge == popped.edge
           best == find_best(points, edge, 0, NoBest)
           children == split_by(edge, points[best.idx], best.idx)
       IN
       /\ LongEdge(edge, concavity)
       /\ IF ~best.some
          THEN \* best.expect(..) panics
               /\ pc' = "panic"
               /\ last' = [kind |-> "panic", i |-> edge.i, j |-> edge.j, k |-> 0]
               /\ UNCHANGED <<edge_heap, boundary_points, concave_hull, splits, pushed>>
          ELSE IF InBoundary(boundary_points, best.idx)
          THEN /\ edge_heap' = popped.heap
               /\ concave_hull' = Append(concave_hull, edge)
               /\ last' = [kind |-> "boundary", i |-> edge.i, j |-> edge.j, k |-> best.idx]
               /\ UNCHANGED <<pc, boundary_points, splits, pushed>>
          ELSE IF SplitIntersects(concave_hull, popped.heap, children[1], children[2])
          THEN /\ edge_heap' = popped.heap
               /\ concave_hull' = Append(concave_hull, edge)
               /\ last' = [kind |-> "intersect", i |-> edge.i, j |-> edge.j, k |-> best.idx]
               /\ UNCHANGED <<pc, boundary_points, splits, pushed>>
          ELSE /\ edge_heap' = heap_push(heap_push(popped.heap, children[1]), children[2])
               /\ boundary_points' = InsertBoundary(boundary_points, best.idx)
               /\ splits' = splits + 1
               /\ last' = [kind |-> "split", i |-> edge.i, j |-> edge.j, k |-> best.idx]
               /\ pushed' = pushed \o <<children[1], children[2]>>
               /\ UNCHANGED <<pc, concave_hull>>
    /\ iterations' = iterations + 1
    /\ UNCHANGED <<test, points, concavity, convex_hull, provider_called, sorted_hull>>

\* The heap is empty: sort the finalized edges end to end and return
Reconstruct ==
    /\ pc = "edges"
    /\ edge_heap = <<>>
    /\ LET r == SortHull(concave_hull) IN
       /\ sorted_hull' = r.hull
       /\ pc' = IF r.ok THEN "done" ELSE "panic"
    /\ UNCHANGED <<pushed, test, points, concavity, convex_hull, provider_called, edge_heap,
                   boundary_points, concave_hull, iterations, splits, last>>

Next ==
    \/ ReturnPoints
    \/ CallConvexHull
    \/ ReturnConvexHull
    \/ BuildHeap
    \/ AcceptShort
    \/ TrySplit
    \/ Reconstruct

Spec == Init /\ [][Next]_vars

----------------------------------------------------------------------------
(* edges_intersect called directly, as the tests of segment_intersect.rs call it *)

\* const POINTS: the numpad grid, in numpad order
POINTS == [k \in 0..(NumPositions - 1) |-> Position(k)]

\* The edges Edge::new makes between two distinct indices of POINTS
TestEdges ==
    { Edge_new(p[1], p[2], POINTS) :
        p \in { q \in (DOMAIN POINTS) \X (DOMAIN POINTS) : q[1] # q[2] } }

\* A call of edges_intersect: a panic where debug assertions are compiled in and
\* one of them fails, the returned boolean otherwise
Outcome(debug_assertions, e1, e2) ==
    IF debug_assertions /\ ~DebugAssertsHold(e1, e2) THEN "panic"
    ELSE IF edges_intersect(e1, e2) THEN "true"
    ELSE "false"

\* Two edges over POINTS, and a build with or without debug assertions
TestInit ==
    /\ points = POINTS
    /\ test \in { [called |-> FALSE, e1 |-> e1, e2 |-> e2, debug_assertions |-> d,
                    forward |-> "none", backward |-> "none"] :
                      e1 \in TestEdges, e2 \in TestEdges, d \in BOOLEAN }
    /\ concavity \in {[inf |-> TRUE, val |-> 0]}
    /\ convex_hull = <<>>
    /\ provider_called = FALSE
    /\ pc = "test"
    /\ pushed = <<>>
    /\ edge_heap = <<>>
    /\ boundary_points = {}
    /\ concave_hull = <<>>
    /\ sorted_hull = <<>>
    /\ iterations = 0
    /\ splits = 0
    /\ last = NoStep

\* edges_intersect(&e1, &e2) and edges_intersect(&e2, &e1)
CallEdgesIntersect ==
    /\ pc = "test"
    /\ ~test.called
    /\ test' = [test EXCEPT
                  !.called = TRUE,
                  !.forward = Outcome(test.debug_assertions, test.e1, test.e2),
                  !.backward = Outcome(test.debug_assertions, test.e2, test.e1)]
    /\ pc' = "tested"
    /\ UNCHANGED <<points, concavity, convex_hull, provider_called, edge_heap,
                   boundary_points, concave_hull, sorted_hull, iterations, splits, last,
                   pushed>>

TestNext == CallEdgesIntersect

TestSpec == TestInit /\ [][TestNext]_vars

----------------------------------------------------------------------------
(* What the claims speak of *)

\* The indices of the returned sequence
OutIndices == [k \in 1..Len(sorted_hull) |-> sorted_hull[k][1]]

\* Every returned pair carries the point of its index
OutPointsMatch == \A k \in DOMAIN sorted_hull : sorted_hull[k][2] = points[sorted_hull[k][1]]

\* The edge from s[k] to its successor in the ring s
RingEdge(s, k) == Edge_new(s[k], s[(k % Len(s)) + 1], points)

\* Positions a and b of a ring of m edges are the same or neighbouring edges
RingAdjacent(a, b, m) == a = b \/ (a % m) + 1 = b \/ (b % m) + 1 = a

\* No two non-adjacent edges of the ring s intersect
RingSimple(s) ==
    \A a, b \in DOMAIN s :
        ~RingAdjacent(a, b, Len(s)) => ~edges_intersect(RingEdge(s, a), RingEdge(s, b))

\* The convex hull is a simple polygon
HullIsSimplePolygon == Len(convex_hull) >= 3 /\ RingSimple(convex_hull)

\* Number of points outside the convex hull's vertex list
InteriorCount == NumPoints(points) - Len(convex_hull)

\* The vertices reached from v in at most n steps along the edges es
RECURSIVE Orbit(_, _, _)
Orbit(es, v, n) ==
    IF n = 0 THEN {v}
    ELSE {v} \cup UNION { Orbit(es, es[k].j, n - 1) : k \in { l \in DOMAIN es : es[l].i = v } }

\* The edges es form exactly one directed simple cycle through the vertices V
IsSimpleCycle(es, V) ==
    /\ Len(es) = Cardinality(V)
    /\ V # {}
    /\ \A a \in DOMAIN es : es[a].i \in V /\ es[a].j \in V /\ es[a].i # es[a].j
    /\ \A a, b \in DOMAIN es : a # b => ~EdgeEq(es[a], es[b])
    /\ \A v \in V : Cardinality({ a \in DOMAIN es : es[a].i = v }) = 1
    /\ \A v \in V : Cardinality({ a \in DOMAIN es : es[a].j = v }) = 1
    /\ \A v \in V : Orbit(es, v, Cardinality(V) - 1) = V

----------------------------------------------------------------------------
(* C1 *)

\* C1 (as stated): with concavity = +infinity and more than 3 points the returned
\* indices are the provider's sequence, element by element.
C1_OutputEqualsHullSequence ==
    (pc = "done" /\ concavity.inf /\ NumPoints(points) > 3) => OutIndices = convex_hull

\* C1 (as amended): with concavity = +infinity and more than 3 points the returned
\* indices are a rotation of the provider's sequence (the same indices in the same
\* cyclic order), beginning at the start of the edge popped last, each with its point.
C1_OutputIsHullRotation ==
    (pc = "done" /\ concavity.inf /\ NumPoints(points) > 3)
        => /\ OutIndices \in Rotations(convex_hull)
           /\ OutIndices[1] = last.i
           /\ OutPointsMatch

C1_Witness ==
    /\ pc = "done" /\ concavity.inf /\ NumPoints(points) > 3
    /\ InteriorCount > 0
    /\ OutIndices # convex_hull

----------------------------------------------------------------------------
(* C2 *)

\* C2: when the convex hull is a simple polygon, no two edges of the returned ring
\* that are not adjacent in it intersect, by edges_intersect in either order.
C2_NoSelfIntersection ==
    (pc = "done" /\ HullIsSimplePolygon) => RingSimple(OutIndices)

C2_Witness ==
    /\ pc = "done" /\ HullIsSimplePolygon
    /\ splits >= 2
    /\ Len(sorted_hull) >= 5
    /\ ~concavity.inf /\ concavity.val = 0

----------------------------------------------------------------------------
(* C3 *)

\* C3: no index occurs twice in the returned sequence.
C3_NoRepeatedIndex ==
    pc = "done" =>
        \A a, b \in DOMAIN sorted_hull : a # b => sorted_hull[a][1] # sorted_hull[b][1]

C3_Witness ==
    /\ pc = "done" /\ ~concavity.inf /\ concavity.val = 0
    /\ splits >= 2
    /\ Len(sorted_hull) = Len(convex_hull) + 2

----------------------------------------------------------------------------
(* C4 *)

\* C4: at the start of every iteration of the refinement loop the finalized and the
\* pending edges together are one directed simple cycle through exactly the boundary
\* points; when the queue is empty the finalized edges alone are.
C4_OneSimpleCycle ==
    pc = "edges" =>
        /\ IsSimpleCycle(concave_hull \o edge_heap, boundary_points)
        /\ edge_heap = <<>> => IsSimpleCycle(concave_hull, boundary_points)

C4_Witness ==
    /\ pc = "edges"
    /\ edge_heap = <<>>
    /\ splits >= 2
    /\ Cardinality(boundary_points) = Len(convex_hull) + 2

----------------------------------------------------------------------------
(* C5 *)

\* An iteration that accepts: one edge leaves the queue, none is added
AcceptShape ==
    /\ Len(edge_heap') = Len(edge_heap) - 1
    /\ Len(concave_hull') = Len(concave_hull) + 1
    /\ boundary_points' = boundary_points
    /\ splits' = splits

\* An iteration that commits a split: one index new to the boundary set is added
CommitShape ==
    /\ Len(edge_heap') = Len(edge_heap) + 1
    /\ concave_hull' = concave_hull
    /\ last'.k \notin boundary_points
    /\ boundary_points' = boundary_points \cup {last'.k}
    /\ splits' = splits + 1

IterationBounds ==
    /\ splits <= InteriorCount
    /\ iterations <= Len(convex_hull) + 2 * InteriorCount

\* The variant of the loop: what is left to do, at most
Rank == 2 * (NumPoints(points) - Cardinality(boundary_points)) + Len(edge_heap)

\* C5: every iteration accepts or commits a split of a new index, and so brings the
\* variant down by one; the committed splits are at most the points outside the
\* convex hull, the iterations at most |hull| + 2 * (n - |hull|); no step of the
\* run fails.
C5_Terminates ==
    /\ [](pc \in {"edges", "done"} => IterationBounds)
    /\ [](pc # "panic")
    /\ [](pc = "edges" => Rank >= 0)
    /\ [][iterations' # iterations =>
            (AcceptShape \/ CommitShape) /\ Rank' = Rank - 1]_vars

C5_Witness ==
    /\ pc = "done"
    /\ InteriorCount >= 2
    /\ splits = InteriorCount
    /\ iterations = Len(convex_hull) + 2 * InteriorCount

----------------------------------------------------------------------------
(* C6 is a statement about two runs and has no formula here. *)

----------------------------------------------------------------------------
(* C7 *)

ZeroConcavity == ~concavity.inf /\ concavity.val = 0

\* The edge the coming iteration pops, and the queue it leaves
PoppedEdge == heap_pop(edge_heap).edge
PendingAfterPop == heap_pop(edge_heap).heap

\* The coming iteration accepts the edge it pops
AcceptsPopped ==
    pc = "edges" /\ edge_heap # <<>> /\ concave_hull' = Append(concave_hull, PoppedEdge)

\* The points a split of edge may insert
Candidates(edge) == DOMAIN points \ {edge.i, edge.j}

\* The candidate of least score, of least index among those
WinningCandidate(edge) ==
    CHOOSE k \in Candidates(edge) :
        \A l \in Candidates(edge) :
            /\ ~AngleGt(CandidateScore(edge, points[k]), CandidateScore(edge, points[l]))
            /\ l < k => AngleGt(CandidateScore(edge, points[l]), CandidateScore(edge, points[k]))

\* A split of the popped edge around point k is turned down by one of the two guards
GuardRejects(edge, k) ==
    \/ k \in boundary_points
    \/ \E pending \in Range(concave_hull) \cup Range(PendingAfterPop) :
          \/ edges_intersect(pending, Edge_new(edge.i, k, points))
          \/ edges_intersect(pending, Edge_new(k, edge.j, points))

\* C7 (as stated): with concavity = 0 an edge is accepted only when every candidate
\* point is rejected by the boundary guard or by the intersection guard.
C7_EveryCandidateRejected ==
    [][(ZeroConcavity /\ AcceptsPopped) =>
          \A k \in Candidates(PoppedEdge) : GuardRejects(PoppedEdge, k)]_vars

\* C7 (as amended): with concavity = 0 no edge is accepted for being short; an edge
\* is accepted only when its winning candidate, the one point tried, is rejected by
\* the boundary guard or by the intersection guard.
C7_WinningCandidateRejected ==
    /\ [](ZeroConcavity => last.kind # "short")
    /\ [][(ZeroConcavity /\ AcceptsPopped) =>
            /\ last'.kind \in {"boundary", "intersect"}
            /\ last'.k = WinningCandidate(PoppedEdge)
            /\ GuardRejects(PoppedEdge, last'.k)]_vars

C7_Witness ==
    /\ ZeroConcavity
    /\ pc = "edges"
    /\ last.kind = "intersect"
    /\ splits >= 1
    /\ concave_hull # <<>>

----------------------------------------------------------------------------
(* C8 *)

\* The edge is no longer than the concavity
WithinConcavity(edge) ==
    concavity.inf \/ norm_squared(edge) <= concavity.val * concavity.val

AllHullEdgesWithinConcavity ==
    \A k \in DOMAIN convex_hull : WithinConcavity(RingEdge(convex_hull, k))

\* C8: a popped edge no longer than the concavity is accepted as it is, nothing
\* else changing; and when no edge of the convex hull is longer than the concavity
\* no split occurs and the returned indices are those of the convex hull.
C8_ShortEdgeAccepted ==
    /\ [][(pc = "edges" /\ edge_heap # <<>> /\ iterations' # iterations
             /\ WithinConcavity(PoppedEdge)) =>
            /\ concave_hull' = Append(concave_hull, PoppedEdge)
            /\ edge_heap' = PendingAfterPop
            /\ boundary_points' = boundary_points
            /\ splits' = splits
            /\ last'.kind = "short"]_vars
    /\ []((pc = "done" /\ NumPoints(points) > 3 /\ AllHullEdgesWithinConcavity) =>
            /\ splits = 0
            /\ Len(sorted_hull) = Len(convex_hull)
            /\ Range(OutIndices) = Range(convex_hull))

C8_Witness ==
    /\ pc = "done" /\ NumPoints(points) > 3
    /\ ~concavity.inf
    /\ AllHullEdgesWithinConcavity
    /\ InteriorCount > 0
    /\ \E k \in DOMAIN convex_hull :
          norm_squared(RingEdge(convex_hull, k)) = concavity.val * concavity.val

----------------------------------------------------------------------------
(* C9 *)

\* C9: for 0 or 1 points the input is returned as it is, nothing for no point and
\* (0, p0) for one, and the convex hull provider is not called.
C9_TrivialCloudReturned ==
    (pc = "done" /\ NumPoints(points) <= 1) =>
        /\ NumPoints(points) = 0 => sorted_hull = <<>>
        /\ NumPoints(points) = 1 => sorted_hull = << <<0, points[0]>> >>
        /\ ~provider_called
        /\ convex_hull = <<>>

C9_Witness ==
    /\ pc = "done"
    /\ NumPoints(points) = 1
    /\ ZeroConcavity
    /\ Len(sorted_hull) = 1

----------------------------------------------------------------------------
(* C10 *)

\* C10: for 2 or 3 points the returned sequence is the provider's, each index with
\* its point, and no refinement step is executed; for 2 points these are both
\* points in input order.
C10_SmallCloudIsConvexHull ==
    (pc = "done" /\ NumPoints(points) \in {2, 3}) =>
        /\ provider_called
        /\ OutIndices = convex_hull
        /\ OutPointsMatch
        /\ iterations = 0 /\ splits = 0 /\ last = NoStep
        /\ edge_heap = <<>> /\ concave_hull = <<>> /\ boundary_points = {}
        /\ NumPoints(points) = 2 => sorted_hull = << <<0, points[0]>>, <<1, points[1]>> >>

C10_Witness ==
    /\ pc = "done"
    /\ NumPoints(points) = 3
    /\ ZeroConcavity
    /\ Len(sorted_hull) = 3
    /\ OutIndices # <<0, 1, 2>>

----------------------------------------------------------------------------
(* C11 *)

\* The shoelace term of one directed edge
ShoelaceTerm(e) == e.point_i.x * e.point_j.y - e.point_j.x * e.point_i.y

\* Twice the signed area enclosed by the directed edges es: positive when they
\* run counter-clockwise
RECURSIVE SignedArea2(_)
SignedArea2(es) ==
    IF es = <<>> THEN 0 ELSE ShoelaceTerm(es[1]) + SignedArea2(Tail(es))

\* The ring of indices s, as its directed edges
RingEdges(s) == [k \in DOMAIN s |-> RingEdge(s, k)]

\* The provider returned a polygon in counter-clockwise order
HullCounterClockwise == Len(convex_hull) >= 3 /\ SignedArea2(RingEdges(convex_hull)) > 0

\* C11: when the provider returns its indices in counter-clockwise order, the
\* finalized and pending edges enclose a positive signed area after the heap is
\* built and after every iteration, a committed split never turning it negative,
\* and the returned polygon has positive signed area: it is counter-clockwise.
C11_OutputCounterClockwise ==
    /\ [](pc = "edges" /\ HullCounterClockwise
            => SignedArea2(concave_hull \o edge_heap) > 0)
    /\ [](pc = "done" /\ HullCounterClockwise
            => SignedArea2(RingEdges(OutIndices)) > 0)

\* A run with splits has returned a polygon smaller than the convex hull
C11_Witness ==
    /\ pc = "done"
    /\ HullCounterClockwise
    /\ splits >= 2
    /\ SignedArea2(RingEdges(OutIndices)) < SignedArea2(RingEdges(convex_hull))

----------------------------------------------------------------------------
(* C12 *)

\* C12: in the 'edges loop, which only clouds of more than 3 points enter, the
\* candidate scan of whatever edge is popped next finds a candidate, whatever the
\* boundary set holds; the expect on the best candidate never panics.
C12_CandidateAlwaysFound ==
    /\ [](pc = "edges" /\ edge_heap # <<>>
            => find_best(points, PoppedEdge, 0, NoBest).some)
    /\ [](last.kind # "panic")

\* Every point is already in the boundary set and a long edge is about to be popped
C12_Witness ==
    /\ pc = "edges"
    /\ NumPoints(points) > 3
    /\ edge_heap # <<>>
    /\ splits >= 1
    /\ boundary_points = DOMAIN points
    /\ LongEdge(PoppedEdge, concavity)
    /\ find_best(points, PoppedEdge, 0, NoBest).idx \in boundary_points

----------------------------------------------------------------------------
(* C13 *)

\* The two edges have the same pair of indices
SameIndices(e1, e2) == e1.i = e2.i /\ e1.j = e2.j

\* One edge starts at the index where the other ends
Chained(e1, e2) == e1.i = e2.j \/ e2.i = e1.j

\* Each edge starts at the index where the other ends
Mirrored(e1, e2) == e1.i = e2.j /\ e2.i = e1.j

\* C13 (as stated): for two edges chained at an endpoint index and not the same
\* edge, edges_intersect returns false in either argument order.
C13_ChainedNeverIntersect ==
    (test.called /\ Chained(test.e1, test.e2) /\ ~SameIndices(test.e1, test.e2))
        => test.forward = "false" /\ test.backward = "false"

\* C13 (as amended): for two edges chained at exactly one endpoint index
\* edges_intersect returns false in either argument order, whatever the
\* coordinates; for mirrored edges, chained at both, it returns false where debug
\* assertions are compiled out and panics where they are compiled in.
C13_ChainedOnceNeverIntersect ==
    /\ (test.called /\ Chained(test.e1, test.e2) /\ ~Mirrored(test.e1, test.e2))
          => test.forward = "false" /\ test.backward = "false"
    /\ (test.called /\ Mirrored(test.e1, test.e2))
          => LET outcome == IF test.debug_assertions THEN "panic" ELSE "false"
             IN  test.forward = outcome /\ test.backward = outcome

\* Two collinear edges along the row y = 1, touching at the index they share
C13_Witness ==
    /\ test.called
    /\ test.debug_assertions
    /\ test.e1.i = 1 /\ test.e1.j = 2
    /\ test.e2.i = 2 /\ test.e2.j = 3
    /\ test.forward = "false" /\ test.backward = "false"

----------------------------------------------------------------------------
(* C14 *)

\* C14: for two edges with the same pair of indices edges_intersect returns true,
\* in either argument order and in either build, although the geometry alone
\* (a zero denominator) would say false.
C14_DuplicateIntersects ==
    (test.called /\ SameIndices(test.e1, test.e2))
        => test.forward = "true" /\ test.backward = "true"

\* The edge (0, 1) tested against its duplicate, as the test duplicate_edge does
C14_Witness ==
    /\ test.called
    /\ test.e1.i = 0 /\ test.e1.j = 1
    /\ test.e2.i = 0 /\ test.e2.j = 1
    /\ test.forward = "true"

----------------------------------------------------------------------------
(* C15 *)

\* The two edges are distinct and start at the same index, or end at the same index
VShaped(e1, e2) == ~SameIndices(e1, e2) /\ (e1.i = e2.i \/ e1.j = e2.j)

\* The denominator of both parameters, and the numerators of t and of u
Denominator(e1, e2) ==
    (e1.point_i.x - e1.point_j.x) * (e2.point_i.y - e2.point_j.y)
    - (e1.point_i.y - e1.point_j.y) * (e2.point_i.x - e2.point_j.x)
TNumerator(e1, e2) ==
    (e1.point_i.x - e2.point_i.x) * (e2.point_i.y - e2.point_j.y)
    - (e1.point_i.y - e2.point_i.y) * (e2.point_i.x - e2.point_j.x)
UNumerator(e1, e2) ==
    -((e1.point_i.x - e1.point_j.x) * (e1.point_i.y - e2.point_i.y)
      - (e1.point_i.y - e1.point_j.y) * (e1.point_i.x - e2.point_i.x))

\* The quotient test: den is not zero and 0 <= num / den <= 1
InUnitInterval(num, den) ==
    /\ den # 0
    /\ IF den > 0 THEN 0 <= num /\ num <= den ELSE den <= num /\ num <= 0

QuotientTest(e1, e2) ==
    /\ InUnitInterval(TNumerator(e1, e2), Denominator(e1, e2))
    /\ InUnitInterval(UNumerator(e1, e2), Denominator(e1, e2))

\* The segments are not parallel and have a point in common: there are parameters
\* t = p / q and u = r / q in [0, 1], q being the size of the denominator, with
\* point_i + t (point_j - point_i) of e1 equal to point_i + u (point_j - point_i) of e2
SegmentsMeet(e1, e2) ==
    LET q == Abs(Denominator(e1, e2)) IN
    /\ q # 0
    /\ \E p, r \in 0..q :
          /\ q * e1.point_i.x + p * (e1.point_j.x - e1.point_i.x)
               = q * e2.point_i.x + r * (e2.point_j.x - e2.point_i.x)
          /\ q * e1.point_i.y + p * (e1.point_j.y - e1.point_i.y)
               = q * e2.point_i.y + r * (e2.point_j.y - e2.point_i.y)

\* The call is on two edges neither identical nor chained at an endpoint index
GeometryCase == test.called /\ ~SameIndices(test.e1, test.e2) /\ ~Chained(test.e1, test.e2)

\* C15 (as stated): for two edges neither identical nor chained edges_intersect
\* returns true exactly when the denominator is not zero and both parameters lie
\* in [0, 1].
C15_TrueIffParametersInUnitInterval ==
    GeometryCase =>
        /\ (test.forward = "true") = QuotientTest(test.e1, test.e2)
        /\ (test.backward = "true") = QuotientTest(test.e2, test.e1)
        /\ test.forward \in {"true", "false"}
        /\ test.backward \in {"true", "false"}

\* C15 (as amended): for two edges neither identical nor chained, and either not
\* sharing a start or an end index or in a build without debug assertions,
\* edges_intersect returns true exactly when the denominator is not zero and both
\* parameters lie in [0, 1], which is exactly when the segments are not parallel
\* and have a point in common; a zero denominator gives false. For two distinct
\* edges sharing a start or an end index it panics where debug assertions are
\* compiled in.
C15_TrueIffParametersInUnitIntervalWhenAccepted ==
    /\ (GeometryCase /\ ~(test.debug_assertions /\ VShaped(test.e1, test.e2)))
          => /\ test.forward \in {"true", "false"}
             /\ test.backward \in {"true", "false"}
             /\ (test.forward = "true") = QuotientTest(test.e1, test.e2)
             /\ (test.backward = "true") = QuotientTest(test.e2, test.e1)
             /\ (test.forward = "true") = SegmentsMeet(test.e1, test.e2)
             /\ Denominator(test.e1, test.e2) = 0 => test.forward = "false"
    /\ (GeometryCase /\ test.debug_assertions /\ VShaped(test.e1, test.e2))
          => test.forward = "panic" /\ test.backward = "panic"

\* T contact: the edge from (1,1) to (1,2) starts in the middle of the edge from
\* (0,1) to (2,1), and the call returns true
C15_Witness ==
    /\ test.called
    /\ test.debug_assertions
    /\ test.e1.i = 1 /\ test.e1.j = 3
    /\ test.e2.i = 2 /\ test.e2.j = 5
    /\ UNumerator(test.e1, test.e2) = 0
    /\ test.forward = "true" /\ test.backward = "true"

----------------------------------------------------------------------------
(* C16 *)

\* The edge e with its direction reversed
Reversed(e) == [i |-> e.j, j |-> e.i, point_i |-> e.point_j, point_j |-> e.point_i]

\* The two edges have four distinct indices
IndexDisjoint(e1, e2) == {e1.i, e1.j} \cap {e2.i, e2.j} = {}

\* C16: a call of edges_intersect that returns returns the same boolean with its
\* arguments exchanged, and a call that panics panics either way; for two edges
\* of four distinct indices the answer is also that for e2 reversed.
C16_Symmetric ==
    test.called =>
        /\ test.forward = test.backward
        /\ IndexDisjoint(test.e1, test.e2) =>
              test.forward = Outcome(test.debug_assertions, test.e1, Reversed(test.e2))

\* The test intersection_t_towards: e2 = (6, 4) runs towards e1 = (1, 7), and the
\* call returns true in both argument orders
C16_Witness ==
    /\ test.called
    /\ test.debug_assertions
    /\ test.e1.i = 1 /\ test.e1.j = 7
    /\ test.e2.i = 6 /\ test.e2.j = 4
    /\ test.forward = "true" /\ test.backward = "true"

----------------------------------------------------------------------------
(* C17 *)

\* The two children of a split of edge around point k
FirstChild(edge, k) == Edge_new(edge.i, k, points)
SecondChild(edge, k) == Edge_new(k, edge.j, points)

\* The step is an iteration of the 'edges loop that commits a split
CommitsSplit == iterations' # iterations /\ splits' = splits + 1

\* C17: an iteration commits the split of the edge e it pops around the winning
\* candidate k exactly when e is longer than the concavity, k is not in the
\* boundary set and neither child intersects an edge finalized or still pending;
\* a commit pushes both children on the queue left by the pop, adds k to the
\* boundary set and leaves the finalized edges as they are.
C17_CommitIffGuardsPass ==
    [][iterations' # iterations =>
         LET e == PoppedEdge
             k == WinningCandidate(e)
         IN  /\ CommitsSplit = (~WithinConcavity(e) /\ ~GuardRejects(e, k))
             /\ CommitsSplit =>
                   /\ k \notin boundary_points
                   /\ boundary_points' = boundary_points \cup {k}
                   /\ concave_hull' = concave_hull
                   /\ Len(edge_heap') = Len(PendingAfterPop) + 2
                   /\ Range(edge_heap') = Range(PendingAfterPop)
                                            \cup {FirstChild(e, k), SecondChild(e, k)}
                   /\ FirstChild(e, k) \notin Range(PendingAfterPop)
                   /\ SecondChild(e, k) \notin Range(PendingAfterPop)
                   /\ pc' = "edges"]_vars

\* A split has just been committed while edges were finalized and others pending
C17_Witness ==
    /\ pc = "edges"
    /\ last.kind = "split"
    /\ splits >= 2
    /\ concave_hull # <<>>
    /\ Len(edge_heap) >= 3
    /\ last.k \in boundary_points

----------------------------------------------------------------------------
(* C18 *)

\* The step is an iteration that turns down the split of the edge it pops
RejectsSplit ==
    /\ iterations' # iterations
    /\ ~WithinConcavity(PoppedEdge)
    /\ GuardRejects(PoppedEdge, WinningCandidate(PoppedEdge))

\* No finalized edge is pending, and no edge is finalized twice
FinalizedIsFinal ==
    /\ \A a \in DOMAIN concave_hull : \A b \in DOMAIN edge_heap :
          ~EdgeEq(concave_hull[a], edge_heap[b])
    /\ \A a, b \in DOMAIN concave_hull : a # b => ~EdgeEq(concave_hull[a], concave_hull[b])

\* C18: an iteration whose winning candidate is in the boundary set, or has a
\* child that intersects, appends the popped edge to the finalized edges and
\* changes nothing else: the boundary set stays, the queue is what the pop left,
\* no split is counted and the one candidate looked at is the winning one; an
\* edge once finalized stays finalized, is never pending again and is not
\* finalized a second time.
C18_RejectedEdgeFinalized ==
    /\ [][RejectsSplit =>
            /\ concave_hull' = Append(concave_hull, PoppedEdge)
            /\ boundary_points' = boundary_points
            /\ edge_heap' = PendingAfterPop
            /\ splits' = splits
            /\ pc' = pc
            /\ last'.kind \in {"boundary", "intersect"}
            /\ last'.k = WinningCandidate(PoppedEdge)]_vars
    /\ [][pc = "edges" =>
            /\ Len(concave_hull') >= Len(concave_hull)
            /\ SubSeq(concave_hull', 1, Len(concave_hull)) = concave_hull]_vars
    /\ [](pc = "edges" => FinalizedIsFinal)

\* A long edge has just been finalized because its winning candidate was in the
\* boundary set already, with edges still pending
C18_Witness ==
    /\ pc = "edges"
    /\ last.kind = "boundary"
    /\ splits >= 1
    /\ edge_heap # <<>>
    /\ concave_hull[Len(concave_hull)].i = last.i
    /\ concave_hull[Len(concave_hull)].j = last.j
    /\ last.k \notin Range(convex_hull)

----------------------------------------------------------------------------
(* C19 *)

\* Candidates k and l have the same score for edge
SameScore(edge, k, l) ==
    /\ ~AngleGt(CandidateScore(edge, points[k]), CandidateScore(edge, points[l]))
    /\ ~AngleGt(CandidateScore(edge, points[l]), CandidateScore(edge, points[k]))

\* C19: the scan of the edge about to be popped ends on the point of least score
\* among all points other than the two ends of the edge, points of the boundary
\* set included, and on the one of least index among those of least score; that
\* point is the one an iteration on a long edge goes on with.
C19_LowestIndexOfLeastScore ==
    /\ [](pc = "edges" /\ edge_heap # <<>> =>
            LET best == find_best(points, PoppedEdge, 0, NoBest) IN
            /\ best.some
            /\ best.idx = WinningCandidate(PoppedEdge)
            /\ \A l \in DOMAIN points \ {PoppedEdge.i, PoppedEdge.j} :
                  /\ ~AngleGt(best.angle, CandidateScore(PoppedEdge, points[l]))
                  /\ SameScore(PoppedEdge, best.idx, l) => best.idx <= l)
    /\ [][iterations' # iterations /\ ~WithinConcavity(PoppedEdge)
            => last'.k = WinningCandidate(PoppedEdge)]_vars

\* A long edge is about to be popped whose winning candidate is in the boundary
\* set already and ties with a point of greater index
C19_Witness ==
    /\ pc = "edges"
    /\ edge_heap # <<>>
    /\ ~WithinConcavity(PoppedEdge)
    /\ WinningCandidate(PoppedEdge) \in boundary_points
    /\ \E l \in Candidates(PoppedEdge) :
          /\ l > WinningCandidate(PoppedEdge)
          /\ SameScore(PoppedEdge, WinningCandidate(PoppedEdge), l)

----------------------------------------------------------------------------
(* C20 *)

\* C20: the boundary set starts as the set of the convex hull's indices and only
\* grows: no step removes an index, a committed split inserts one index that was
\* not in it, so the set counts the hull's indices and one more per split; the
\* indices returned are exactly the final boundary set, the convex hull's among
\* them.
C20_BoundaryOnlyGrows ==
    /\ [][pc = "inner" /\ pc' = "edges" => boundary_points' = Range(convex_hull)]_vars
    /\ [][boundary_points \subseteq boundary_points']_vars
    /\ [][CommitsSplit =>
            /\ last'.k \notin boundary_points
            /\ boundary_points' = boundary_points \cup {last'.k}]_vars
    /\ [](pc \in {"edges", "done"} /\ NumPoints(points) > 3 =>
            /\ Range(convex_hull) \subseteq boundary_points
            /\ Cardinality(boundary_points) = Len(convex_hull) + splits)
    /\ [](pc = "done" /\ NumPoints(points) > 3 =>
            /\ Range(OutIndices) = boundary_points
            /\ Range(convex_hull) \subseteq Range(OutIndices))

\* A run has returned the hull's indices and those of two splits
C20_Witness ==
    /\ pc = "done"
    /\ splits >= 2
    /\ Range(OutIndices) = boundary_points
    /\ Cardinality(boundary_points \ Range(convex_hull)) = splits

----------------------------------------------------------------------------
(* C21 *)

\* The place of edge e in the order of the pushes
PushRank(e) == CHOOSE k \in DOMAIN pushed :
                  EdgeEq(pushed[k], e) /\ \A l \in 1..(k - 1) : ~EdgeEq(pushed[l], e)

\* The iteration pops an edge no shorter than any edge pending
PopsLongest ==
    /\ last'.i = PoppedEdge.i /\ last'.j = PoppedEdge.j
    /\ \A f \in Range(edge_heap) : norm_squared(f) <= norm_squared(PoppedEdge)

\* No edge left pending is as long as the popped edge and was pushed before it
PopsFirstPushedOfLongest ==
    \A f \in Range(PendingAfterPop) :
        norm_squared(f) = norm_squared(PoppedEdge) => PushRank(PoppedEdge) < PushRank(f)

\* C21 (as stated): every iteration pops an edge of maximal squared length, and
\* among pending edges of equal squared length the one pushed first.
C21_PopsLongestFirstInFirstOut ==
    [][iterations' # iterations => PopsLongest /\ PopsFirstPushedOfLongest]_vars

\* C21 (as amended): every iteration pops an edge of maximal squared length;
\* among pending edges of equal squared length the binary heap pops the one at
\* its root, which need not be the one pushed first.
C21_PopsLongest ==
    [][iterations' # iterations => PopsLongest]_vars

\* The edge just popped was pushed after an edge of the same length still pending
C21_Witness ==
    /\ pc = "edges"
    /\ iterations >= 1
    /\ \E f \in Range(edge_heap) :
          /\ norm_squared(f) = norm_squared(Edge_new(last.i, last.j, points))
          /\ PushRank(f) < PushRank(Edge_new(last.i, last.j, points))

----------------------------------------------------------------------------
(* C22 *)

\* Some finalized edge runs from index a to index b
IsFinalizedEdge(a, b) == \E k \in DOMAIN concave_hull : concave_hull[k].i = a /\ concave_hull[k].j = b

\* C22: the reconstruction never fails to find the next edge, and what it returns
\* has one entry per finalized edge, each an index with its point, every entry
\* and its successor (the first being that of the last) being the two ends of a
\* finalized edge in its direction; the first entry is the start of the edge
\* accepted last.
C22_ReconstructionFollowsCycle ==
    /\ [](pc # "panic")
    /\ [](pc = "edges" /\ edge_heap = <<>> => SortHull(concave_hull).ok)
    /\ [](pc = "done" /\ NumPoints(points) > 3 =>
            /\ Len(sorted_hull) = Len(concave_hull)
            /\ OutPointsMatch
            /\ \A k \in DOMAIN sorted_hull :
                  IsFinalizedEdge(OutIndices[k], OutIndices[(k % Len(sorted_hull)) + 1])
            /\ OutIndices[1] = concave_hull[Len(concave_hull)].i
            /\ OutIndices[1] = last.i
            /\ OutIndices[2] = last.j)

\* A hull with splits has been reconstructed, the edges not having been
\* finalized in the order of the cycle
C22_Witness ==
    /\ pc = "done"
    /\ splits >= 1
    /\ Len(sorted_hull) >= 5
    /\ OutIndices[1] = last.i
    /\ \E k \in 1..(Len(concave_hull) - 1) : concave_hull[k].j # concave_hull[k + 1].i

----------------------------------------------------------------------------
(* C23 *)

\* Two angles are equal
AngleEq(a, b) == ~AngleGt(a, b) /\ ~AngleGt(b, a)

\* The larger of the angle between the direction of edge and the vector from its
\* start to p, and the angle between the reversed direction and the vector from
\* p to its end
ReversedDirectionScore(edge, p) ==
    AngleMax(angle(Sub(edge.point_j, edge.point_i), Sub(p, edge.point_i)),
             angle(Sub(edge.point_i, edge.point_j), Sub(edge.point_j, p)))

\* The larger of the two angles of the triangle start, p, end at the ends of edge:
\* at the start, between the direction and the vector from the start to p; at the
\* end, between the reversed direction and the vector from the end to p
InteriorAngleScore(edge, p) ==
    AngleMax(angle(Sub(edge.point_j, edge.point_i), Sub(p, edge.point_i)),
             angle(Sub(edge.point_i, edge.point_j), Sub(p, edge.point_j)))

\* C23 (as stated): the score of every candidate of the edge about to be popped
\* is the larger of the angle between the edge's direction and the vector from
\* its start to p and the angle between its reversed direction and the vector
\* from p to its end.
C23_ScoreUsesReversedDirection ==
    (pc = "edges" /\ edge_heap # <<>>) =>
        \A l \in Candidates(PoppedEdge) :
            AngleEq(CandidateScore(PoppedEdge, points[l]),
                    ReversedDirectionScore(PoppedEdge, points[l]))

\* C23 (as amended): the score of every candidate of the edge about to be popped
\* is the larger of the two angles of the triangle at the ends of the edge: the
\* second is taken between the edge's direction, not reversed, and the vector from
\* p to its end; and the scan ends with the score of its winner.
C23_ScoreIsLargerInteriorAngle ==
    (pc = "edges" /\ edge_heap # <<>>) =>
        /\ \A l \in Candidates(PoppedEdge) :
              AngleEq(CandidateScore(PoppedEdge, points[l]),
                      InteriorAngleScore(PoppedEdge, points[l]))
        /\ LET best == find_best(points, PoppedEdge, 0, NoBest) IN
            AngleEq(best.angle, InteriorAngleScore(PoppedEdge, points[best.idx]))

\* A long edge is about to be popped whose winning candidate would lose to
\* another point were the second angle taken from the reversed direction
C23_Witness ==
    /\ pc = "edges"
    /\ edge_heap # <<>>
    /\ ~WithinConcavity(PoppedEdge)
    /\ \E l \in Candidates(PoppedEdge) :
          AngleGt(ReversedDirectionScore(PoppedEdge, points[WinningCandidate(PoppedEdge)]),
                  ReversedDirectionScore(PoppedEdge, points[l]))

----------------------------------------------------------------------------
(* C24 *)

\* The step is an iteration that went through the intersection test of the two
\* children against the finalized and the pending edges
RunsIntersectionTest == iterations' # iterations /\ last'.kind \in {"intersect", "split"}

\* The pair passes the three debug assertions: the edges are not mirrored, and if
\* distinct they share neither their start index nor their end index
AcceptedPair(e1, e2) == ~Mirrored(e1, e2) /\ ~VShaped(e1, e2) /\ DebugAssertsHold(e1, e2)

\* C24: whenever an iteration tests the children of a split against the
\* finalized and the pending edges, every pair it can hand to edges_intersect, in
\* the order edge then child, passes the debug assertions: no mirrored edges, no
\* two distinct edges with the same start index or with the same end index.
C24_DebugAssertionsHold ==
    [][RunsIntersectionTest =>
         LET children == split_by(PoppedEdge, points[last'.k], last'.k) IN
         \A edge \in Range(concave_hull) \cup Range(PendingAfterPop) :
             /\ AcceptedPair(edge, children[1])
             /\ AcceptedPair(edge, children[2])]_vars

\* After a split, an intersection test has run over pending edges, one of them
\* starting where the popped edge ends and one not touching it, and has turned
\* the split down
C24_Witness ==
    /\ pc = "edges"
    /\ last.kind = "intersect"
    /\ splits >= 1
    /\ \E b \in DOMAIN edge_heap : edge_heap[b].i = last.j
    /\ \E b \in DOMAIN edge_heap : edge_heap[b].i # last.j /\ edge_heap[b].j # last.i

====
